---- MODULE Spec2Model ----
(***************************************************************************)
(* Model of the GSlides AI updater (src/src/gslides_ai/updater.py): the    *)
(* process-exit wait, download, extraction, the backup-and-swap install    *)
(* with its rollback, the relaunch, and the two front ends that drive      *)
(* them (run_cli_updater and run_gui_updater.update_thread).               *)
(*                                                                         *)
(* Time is counted in polling intervals of wait_for_process_exit (one      *)
(* time.sleep(0.5)).  A filesystem entry is modelled by what it holds:     *)
(* "none" (absent), "old" (the installed bundle), "new" (the complete new  *)
(* bundle), "partial" (a new bundle whose cross-device copy was aborted),  *)
(* "stale" (a directory left at the backup path by an earlier run) and     *)
(* "stalefile" (a plain file left there).                                  *)
(***************************************************************************)
EXTENDS Integers, Sequences, FiniteSets

VARIABLES
    mode,        \* "cli" (run_cli_updater) or "gui" (run_gui_updater)
    pidArg,      \* --main-pid: "none" (not given), "zero" (given as 0), "pid"
    hasPid,      \* main_pid is truthy
    procAlive,   \* the watched process exists
    alive0,      \* the watched process existed when the session started
    procPerm,    \* the updater may signal the watched process
    timeout,     \* timeout of wait_for_process_exit, in polling intervals
    elapsed,     \* time.time() - start, in polling intervals
    lastProbe,   \* what the last os.kill(pid, 0) probe met: "none", "exists", "absent"
    allExisted,  \* the process existed at every probe made so far
    archive,     \* depths (0 = top level) at which the archive holds a .app entry
    corrupt,     \* the downloaded file is not a readable zip archive
    pc,          \* position of the pipeline
    target,      \* content at old_app (the installed-bundle path)
    backup,      \* content at backup_path
    target0,     \* content at old_app when the session started
    backup0,     \* content at backup_path when the session started
    newApp,      \* what extract_app returned: "none", "top", "nested"
    tmp,         \* the TemporaryDirectory: "none", "exists", "removed"
    started,     \* core operations begun, in order
    results,     \* result of each core operation: "none", "ok", "fail", "raise"
    failedSteps, \* I/O steps that failed during the session
    aliveAtInstall, \* a step of replace_app ran while the watched process was alive
    launched,    \* path handed to launch_app: "none", "app_path", "tmp_path"
    appStarted,  \* the command started by launch_app brought the application up
    outcome,     \* "none", "complete", "failed", "crashed"
    msg,         \* the status line that reports the outcome
    windowClosed,\* page.window.close() was called
    ended,       \* the updater process has ended
    exitCode,    \* its exit code (-1 while it runs)
    pipelines,   \* update threads started so far (1 for run_cli_updater)
    closers,     \* finished update threads asleep before page.window.close()
    hooks,       \* calls of reporthook made by the running urlretrieve
    blockSize,   \* block_size handed to reporthook (0 before the first call)
    totalSize,   \* total_size handed to reporthook: -1 when none is declared
    percent,     \* last percent handed to progress_callback, <<num, den>>
    callbacks,   \* calls of progress_callback made by download_file
    progress     \* the window's status line and progress value num/den

vars == <<mode, pidArg, hasPid, procAlive, alive0, procPerm, timeout, elapsed, lastProbe,
          allExisted, archive, corrupt, pc, target, backup, target0, backup0,
          newApp, tmp, started, results, failedSteps, aliveAtInstall,
          launched, appStarted, outcome, msg, windowClosed, ended, exitCode,
          pipelines, closers, hooks, blockSize, totalSize, percent, callbacks,
          progress>>

envVars == <<mode, pidArg, hasPid, alive0, procPerm, timeout, archive, corrupt,
            target0, backup0>>
waitVars == <<elapsed, lastProbe, allExisted>>
fsVars == <<target, backup>>
endVars == <<outcome, msg, windowClosed, ended, exitCode>>
launchVars == <<launched, appStarted>>
idleVars == <<pipelines, closers>>
dlVars == <<hooks, blockSize, totalSize, percent, callbacks>>

\* wait_for_process_exit(main_pid, timeout=30), in seconds
TimeoutSeconds == 30

\* time.sleep(0.5): two polling intervals per second
PollsPerSecond == 2

\* the timeout of a session's wait, in polling intervals
SessionTimeout == TimeoutSeconds * PollsPerSecond

\* deepest nesting of a bundle inside the archives considered
MaxDepth == 2

\* largest timeout, in polling intervals, given to wait_for_process_exit
\* when it is examined on its own
MaxTimeout == 4

\* most times the page's idle event fires in a process
MaxIdleEvents == 2

\* most blocks urlretrieve reads in a download
MaxBlocks == 3

\* largest block size urlretrieve reads with
MaxBlockSize == 2

\* largest total size a server declares
MaxTotal == 4

Ops == <<"wait", "download", "extract", "replace", "launch">>
OpSet == {Ops[i] : i \in 1..Len(Ops)}

TargetStates == {"none", "old"}
BackupStates == {"none", "stale", "stalefile"}

\* update_progress(percent, status): the status line and the value shown,
\* as the fraction num/den of 100
Bar(st, v) == [status |-> st, num |-> v[1], den |-> v[2]]

\* update_progress exists in the window only: run_cli_updater prints.
UpdateProgress(st, v) ==
    progress' = IF mode = "gui" THEN Bar(st, v) ELSE progress

Init ==
    /\ mode \in {"cli", "gui"}
    /\ pidArg \in {"none", "zero", "pid"}
    /\ hasPid = (pidArg = "pid")
    /\ procAlive \in BOOLEAN
    /\ alive0 = procAlive
    /\ procPerm \in BOOLEAN
    /\ timeout = SessionTimeout
    /\ elapsed = 0
    /\ lastProbe = "none"
    /\ allExisted = TRUE
    /\ archive \in SUBSET (0..MaxDepth)
    /\ corrupt \in BOOLEAN
    /\ pc = "start"
    /\ target \in TargetStates
    /\ backup \in BackupStates
    /\ target0 = target
    /\ backup0 = backup
    /\ newApp = "none"
    /\ tmp = "none"
    /\ started = <<>>
    /\ results = [o \in OpSet |-> "none"]
    /\ failedSteps = {}
    /\ aliveAtInstall = FALSE
    /\ launched = "none"
    /\ appStarted = FALSE
    /\ outcome = "none"
    /\ msg = "none"
    /\ windowClosed = FALSE
    /\ ended = FALSE
    /\ exitCode = -1
    /\ pipelines = 1
    /\ closers = 0
    /\ hooks = 0
    /\ blockSize = 0
    /\ totalSize = 0
    /\ percent = <<0, 1>>
    /\ callbacks = 0
    /\ progress = Bar(IF mode = "gui" THEN "preparing" ELSE "none", <<0, 1>>)

(***************************************************************************)
(* How a session ends.                                                     *)
(***************************************************************************)

\* Leaving the "with tempfile.TemporaryDirectory()" block removes the directory.
LeaveTemp(t) == IF t = "exists" THEN "removed" ELSE t

\* Mutant of CliEnd: the temporary directory is not removed on the way out.
CliEnd_Mut(o, m, code) ==
    /\ outcome' = o
    /\ msg' = m
    /\ exitCode' = code
    /\ ended' = TRUE
    /\ pc' = "done"
    /\ UNCHANGED <<windowClosed, tmp, progress>>

\* run_cli_updater: sys.exit(1), an uncaught exception, or the normal return.
\* All three unwind through the with block and end the process.
CliEnd(o, m, code) ==
    /\ outcome' = o
    /\ msg' = m
    /\ exitCode' = code
    /\ ended' = TRUE
    /\ tmp' = LeaveTemp(tmp)
    /\ pc' = "done"
    /\ UNCHANGED <<windowClosed, progress>>

\* update_thread: update_progress(.., status); time.sleep(..); the window is
\* closed by the next step.  inScope: the status is set inside the with block.
GuiEnd(o, m, inScope) ==
    /\ outcome' = o
    /\ msg' = m
    /\ tmp' = IF inScope THEN tmp ELSE LeaveTemp(tmp)
    /\ pc' = "gui_close"
    /\ progress' = IF o = "complete" THEN Bar("complete", <<100, 1>>)
                   ELSE Bar("error", <<0, 1>>)
    /\ UNCHANGED <<windowClosed, ended, exitCode>>

\* Mutant of EndFail: the headless front end reports the error and returns
\* normally (exit code 0).
EndFail_Mut(m) ==
    IF mode = "cli" THEN CliEnd("failed", m, 0) ELSE GuiEnd("failed", m, TRUE)

\* A phase returned failure: "Error: ..." and sys.exit(1) / window close.
EndFail(m) ==
    IF mode = "cli" THEN CliEnd("failed", m, 1) ELSE GuiEnd("failed", m, TRUE)

\* A phase raised: uncaught in run_cli_updater (traceback, exit code 1);
\* caught by "except Exception" in update_thread, outside the with block.
EndRaise ==
    IF mode = "cli" THEN CliEnd("crashed", "traceback", 1)
    ELSE GuiEnd("failed", "exception", FALSE)

\* "Update complete!"
EndComplete ==
    IF mode = "cli" THEN CliEnd("complete", "complete", 0)
    ELSE GuiEnd("complete", "complete", TRUE)

Begin(op) == started' = Append(started, op)
Result(op, r) == results' = [results EXCEPT ![op] = r]
Failed(step) == failedSteps' = failedSteps \cup {step}

(***************************************************************************)
(* wait_for_process_exit                                                   *)
(***************************************************************************)

\* os.kill(pid, 0): "ok" when the signal could be sent, "oserror" when it
\* raised (ESRCH for a missing process, EPERM for one that may not be signalled).
Probe(alive, perm) == IF alive /\ perm THEN "ok" ELSE "oserror"

\* Mutant of StartWait: the wait is skipped although a pid was given.
StartWait_Mut ==
    /\ pc = "start" /\ ~ended
    /\ hasPid
    /\ pc' = "tempdir"
    /\ UNCHANGED <<envVars, idleVars, dlVars, progress, procAlive, waitVars,
                   fsVars, newApp, tmp, started, results, failedSteps,
                   aliveAtInstall, launchVars, endVars>>

\* "if main_pid:" with a pid given: the wait phase begins.
StartWait ==
    /\ pc = "start" /\ ~ended
    /\ hasPid
    /\ Begin("wait")
    /\ UpdateProgress("waiting", <<5, 1>>)
    /\ pc' = "wait"
    /\ UNCHANGED <<envVars, idleVars, dlVars, procAlive, waitVars, fsVars,
                   newApp, tmp, results, failedSteps, aliveAtInstall,
                   launchVars, endVars>>

\* "if main_pid:" without one: straight to the download.
StartNoPid ==
    /\ pc = "start" /\ ~ended
    /\ ~hasPid
    /\ pc' = "tempdir"
    /\ UNCHANGED <<envVars, idleVars, dlVars, progress, procAlive, waitVars,
                   fsVars, newApp, tmp, started, results, failedSteps,
                   aliveAtInstall, launchVars, endVars>>

\* Mutant of WaitSleep: the clock the loop reads starts over before the
\* timeout is reached.
WaitSleep_Mut ==
    /\ pc = "wait" /\ ~ended
    /\ elapsed < timeout
    /\ Probe(procAlive, procPerm) = "ok"
    /\ elapsed' = (elapsed + 1) % timeout
    /\ lastProbe' = "exists"
    /\ UNCHANGED <<envVars, idleVars, dlVars, progress, procAlive, allExisted,
                   pc, fsVars, newApp, tmp, started, results, failedSteps,
                   aliveAtInstall, launchVars, endVars>>

\* One iteration of the loop whose probe succeeds: sleep one interval.
WaitSleep ==
    /\ pc = "wait" /\ ~ended
    /\ elapsed < timeout
    /\ Probe(procAlive, procPerm) = "ok"
    /\ elapsed' = elapsed + 1
    /\ lastProbe' = "exists"
    /\ UNCHANGED <<envVars, idleVars, dlVars, progress, procAlive, allExisted,
                   pc, fsVars, newApp, tmp, started, results, failedSteps,
                   aliveAtInstall, launchVars, endVars>>

\* One iteration whose probe raises OSError: return True.
WaitReturnTrue ==
    /\ pc = "wait" /\ ~ended
    /\ elapsed < timeout
    /\ Probe(procAlive, procPerm) = "oserror"
    /\ lastProbe' = IF procAlive THEN "exists" ELSE "absent"
    /\ allExisted' = (allExisted /\ procAlive)
    /\ Result("wait", "ok")
    /\ pc' = "tempdir"
    /\ UNCHANGED <<envVars, idleVars, dlVars, progress, procAlive, elapsed,
                   fsVars, newApp, tmp, started, failedSteps, aliveAtInstall,
                   launchVars, endVars>>

\* The loop condition fails: return False; the caller reports and stops.
WaitTimeout ==
    /\ pc = "wait" /\ ~ended
    /\ ~(elapsed < timeout)
    /\ Result("wait", "fail")
    /\ EndFail("no_close")
    /\ UNCHANGED <<envVars, idleVars, dlVars, procAlive, waitVars, fsVars,
                   newApp, started, failedSteps, aliveAtInstall, launchVars>>

\* The watched process exits (environment).
ProcExit ==
    /\ procAlive
    /\ pc # "done"
    /\ procAlive' = FALSE
    /\ UNCHANGED <<envVars, idleVars, dlVars, progress, waitVars, pc, fsVars,
                   newApp, tmp, started, results, failedSteps, aliveAtInstall,
                   launchVars, endVars>>

(***************************************************************************)
(* download_file and extract_app                                           *)
(***************************************************************************)

\* "with tempfile.TemporaryDirectory() as temp_dir:"; the clock of the
\* wait that has returned is dropped.
MakeTemp ==
    /\ pc = "tempdir" /\ ~ended
    /\ UpdateProgress("downloading", <<10, 1>>)
    /\ tmp' = "exists"
    /\ elapsed' = 0
    /\ pc' = "download"
    /\ UNCHANGED <<envVars, idleVars, dlVars, procAlive, lastProbe,
                   allExisted, fsVars, newApp, started, results, failedSteps,
                   aliveAtInstall, launchVars, endVars>>

\* Mutant of Percent: the quotient is passed on without the cap.
Percent_Mut(block_num, block_size, total_size) ==
    <<block_num * block_size * 100, total_size>>

\* reporthook: percent = min(100, (downloaded / total_size) * 100), kept as
\* the fraction <<num, den>>; called with total_size > 0 only.
Percent(block_num, block_size, total_size) ==
    IF block_num * block_size * 100 >= 100 * total_size
    THEN <<100, 1>>
    ELSE <<block_num * block_size * 100, total_size>>

\* Mutant of OnProgress: the percent is added without the 0.6 scale.
OnProgress_Mut(p) == <<10 * p[2] + p[1], p[2]>>

\* on_progress: 10 + (percent * 0.6), as a fraction
OnProgress(p) == <<50 * p[2] + 3 * p[1], 5 * p[2]>>

\* download_file returns: nothing of the call is left.
DlReturn ==
    /\ hooks' = 0
    /\ blockSize' = 0
    /\ totalSize' = 0
    /\ percent' = <<0, 1>>
    /\ callbacks' = 0

\* urlretrieve calls reporthook(block_num, block_size, total_size): once
\* when the response arrives (block_num 0) and once after every block read.
\* reporthook calls progress_callback only "if progress_callback and
\* total_size > 0"; both front ends pass a callback, the window's one maps
\* the percent onto the progress bar.
ReportHook ==
    /\ pc = "download" /\ ~ended
    /\ hooks <= MaxBlocks
    /\ IF hooks = 0
       THEN /\ blockSize' \in 1..MaxBlockSize
            /\ totalSize' \in -1..MaxTotal
       ELSE UNCHANGED <<blockSize, totalSize>>
    /\ hooks' = hooks + 1
    /\ IF totalSize' > 0
       THEN /\ percent' = Percent(hooks, blockSize', totalSize')
            /\ callbacks' = callbacks + 1
            /\ UpdateProgress("downloading", OnProgress(percent'))
       ELSE UNCHANGED <<percent, callbacks, progress>>
    /\ UNCHANGED <<envVars, idleVars, procAlive, waitVars, pc, fsVars, newApp,
                   tmp, started, results, failedSteps, aliveAtInstall,
                   launchVars, endVars>>

\* download_file returned True.
DownloadOk ==
    /\ pc = "download" /\ ~ended
    /\ hooks >= 1
    /\ totalSize > 0 => (hooks - 1) * blockSize >= totalSize
    /\ Begin("download")
    /\ DlReturn
    /\ Result("download", "ok")
    /\ UpdateProgress("extracting", <<75, 1>>)
    /\ pc' = "extract"
    /\ UNCHANGED <<envVars, idleVars, procAlive, waitVars, fsVars,
                   newApp, tmp, failedSteps, aliveAtInstall, launchVars,
                   endVars>>

\* Mutant of DownloadFail: the False result is ignored and extraction follows.
DownloadFail_Mut ==
    /\ pc = "download" /\ ~ended
    /\ Begin("download")
    /\ DlReturn
    /\ Result("download", "fail")
    /\ Failed("download")
    /\ pc' = "extract"
    /\ UNCHANGED <<envVars, idleVars, progress, procAlive, waitVars,
                   fsVars, newApp, tmp, aliveAtInstall, launchVars, endVars>>

\* urlretrieve raised; download_file caught it and returned False.
DownloadFail ==
    /\ pc = "download" /\ ~ended
    /\ Begin("download")
    /\ DlReturn
    /\ Result("download", "fail")
    /\ Failed("download")
    /\ EndFail("download_failed")
    /\ UNCHANGED <<envVars, idleVars, procAlive, waitVars, fsVars,
                   newApp, aliveAtInstall, launchVars>>

\* Mutant of ExtractApp: the search descends to any depth.
ExtractApp_Mut(arch, bad) ==
    IF bad THEN "bad_zip"
    ELSE IF 0 \in arch THEN "top"
    ELSE IF arch # {} THEN "nested"
    ELSE "not_found"

\* Mutant of ExtractApp: a single pass that descends into a directory before
\* the remaining top-level entries are examined.
ExtractApp_MutNestedFirst(arch, bad) ==
    IF bad THEN "bad_zip"
    ELSE IF 1 \in arch THEN "nested"
    ELSE IF 0 \in arch THEN "top"
    ELSE "not_found"

\* extract_app: the bundle found at the top level, else one level down, else
\* FileNotFoundError; an unreadable archive raises from zipfile.ZipFile.
ExtractApp(arch, bad) ==
    IF bad THEN "bad_zip"
    ELSE IF 0 \in arch THEN "top"
    ELSE IF 1 \in arch THEN "nested"
    ELSE "not_found"

ExtractOk ==
    /\ pc = "extract" /\ ~ended
    /\ ExtractApp(archive, corrupt) \in {"top", "nested"}
    /\ Begin("extract")
    /\ Result("extract", "ok")
    /\ newApp' = ExtractApp(archive, corrupt)
    /\ UpdateProgress("installing", <<85, 1>>)
    /\ pc' = "replace"
    /\ UNCHANGED <<envVars, idleVars, dlVars, procAlive, waitVars, fsVars, tmp,
                   failedSteps, aliveAtInstall, launchVars, endVars>>

\* Mutant of ExtractNotFound: the archive was unpacked over the installed
\* bundle.
ExtractNotFound_Mut ==
    /\ pc = "extract" /\ ~ended
    /\ ExtractApp(archive, corrupt) = "not_found"
    /\ Begin("extract")
    /\ Result("extract", "fail")
    /\ Failed("extract")
    /\ target' = "partial"
    /\ EndFail("not_found")
    /\ UNCHANGED <<envVars, idleVars, dlVars, procAlive, waitVars, backup, newApp,
                   aliveAtInstall, launchVars>>

\* "except FileNotFoundError as e:"
ExtractNotFound ==
    /\ pc = "extract" /\ ~ended
    /\ ExtractApp(archive, corrupt) = "not_found"
    /\ Begin("extract")
    /\ Result("extract", "fail")
    /\ Failed("extract")
    /\ EndFail("not_found")
    /\ UNCHANGED <<envVars, idleVars, dlVars, procAlive, waitVars, fsVars, newApp,
                   aliveAtInstall, launchVars>>

\* Any other error of extract_app (zipfile.BadZipFile).
ExtractRaise ==
    /\ pc = "extract" /\ ~ended
    /\ ExtractApp(archive, corrupt) = "bad_zip"
    /\ Begin("extract")
    /\ Result("extract", "raise")
    /\ Failed("extract")
    /\ EndRaise
    /\ UNCHANGED <<envVars, idleVars, dlVars, procAlive, waitVars, fsVars, newApp,
                   aliveAtInstall, launchVars>>

(***************************************************************************)
(* replace_app, one action per filesystem step.  backup_path is a sibling  *)
(* of old_app, so the moves between them are renames: they happen or they  *)
(* do not.  new_app lies in the temporary directory, which may be on       *)
(* another filesystem: shutil.move then copies the tree and a failure can  *)
(* leave a partial copy at the destination.  shutil.rmtree that fails      *)
(* leaves the entry in existence; on a plain file it always fails          *)
(* (NotADirectoryError).                                                   *)
(***************************************************************************)

\* shutil.rmtree(backup_path) can succeed on this entry.
RmtreeCanSucceed(entry) == entry # "stalefile"

\* The condition under which the except block moves the backup back.
RestoreCond(b, t) == b # "none" /\ t = "none"

Alive == aliveAtInstall' = (aliveAtInstall \/ (hasPid /\ procAlive))

\* replace_app is called.
ReplaceBegin ==
    /\ pc = "replace" /\ ~ended
    /\ Begin("replace")
    /\ pc' = "r_rmstale"
    /\ UNCHANGED <<envVars, idleVars, dlVars, progress, procAlive, waitVars,
                   fsVars, newApp, tmp, results, failedSteps, aliveAtInstall,
                   launchVars, endVars>>

\* "if backup_path.exists(): shutil.rmtree(backup_path)" (stale backup)
RmStaleSkip ==
    /\ pc = "r_rmstale" /\ ~ended
    /\ backup = "none"
    /\ pc' = "r_mvold"
    /\ UNCHANGED <<envVars, idleVars, dlVars, progress, procAlive, waitVars,
                   fsVars, newApp, tmp, started, results, failedSteps,
                   aliveAtInstall, launchVars, endVars>>

RmStaleOk ==
    /\ pc = "r_rmstale" /\ ~ended
    /\ backup # "none"
    /\ RmtreeCanSucceed(backup)
    /\ backup' = "none"
    /\ Alive
    /\ pc' = "r_mvold"
    /\ UNCHANGED <<envVars, idleVars, dlVars, progress, procAlive, waitVars,
                   target, newApp, tmp, started, results, failedSteps,
                   launchVars, endVars>>

RmStaleFail ==
    /\ pc = "r_rmstale" /\ ~ended
    /\ backup # "none"
    /\ Failed("rm_stale")
    /\ Alive
    /\ pc' = "r_except"
    /\ UNCHANGED <<envVars, idleVars, dlVars, progress, procAlive, waitVars,
                   fsVars, newApp, tmp, started, results, launchVars, endVars>>

\* "if old_app.exists(): shutil.move(str(old_app), str(backup_path))"
MvOldSkip ==
    /\ pc = "r_mvold" /\ ~ended
    /\ target = "none"
    /\ pc' = "r_mvnew"
    /\ UNCHANGED <<envVars, idleVars, dlVars, progress, procAlive, waitVars,
                   fsVars, newApp, tmp, started, results, failedSteps,
                   aliveAtInstall, launchVars, endVars>>

\* Mutant of MvOldOk: the old bundle is removed instead of moved aside.
MvOldOk_Mut ==
    /\ pc = "r_mvold" /\ ~ended
    /\ target # "none"
    /\ target' = "none"
    /\ Alive
    /\ pc' = "r_mvnew"
    /\ UNCHANGED <<envVars, idleVars, dlVars, progress, procAlive, waitVars,
                   backup, newApp, tmp, started, results, failedSteps,
                   launchVars, endVars>>

MvOldOk ==
    /\ pc = "r_mvold" /\ ~ended
    /\ target # "none"
    /\ backup' = target
    /\ target' = "none"
    /\ Alive
    /\ pc' = "r_mvnew"
    /\ UNCHANGED <<envVars, idleVars, dlVars, progress, procAlive, waitVars,
                   newApp, tmp, started, results, failedSteps, launchVars,
                   endVars>>

MvOldFail ==
    /\ pc = "r_mvold" /\ ~ended
    /\ target # "none"
    /\ Failed("mv_old")
    /\ Alive
    /\ pc' = "r_except"
    /\ UNCHANGED <<envVars, idleVars, dlVars, progress, procAlive, waitVars,
                   fsVars, newApp, tmp, started, results, launchVars, endVars>>

\* "shutil.move(str(new_app), str(old_app))"
MvNewOk ==
    /\ pc = "r_mvnew" /\ ~ended
    /\ target' = "new"
    /\ Alive
    /\ pc' = "r_rmbackup"
    /\ UNCHANGED <<envVars, idleVars, dlVars, progress, procAlive, waitVars,
                   backup, newApp, tmp, started, results, failedSteps,
                   launchVars, endVars>>

\* The move raised and left nothing at old_app.
MvNewFail ==
    /\ pc = "r_mvnew" /\ ~ended
    /\ Failed("mv_new")
    /\ Alive
    /\ pc' = "r_except"
    /\ UNCHANGED <<envVars, idleVars, dlVars, progress, procAlive, waitVars,
                   fsVars, newApp, tmp, started, results, launchVars, endVars>>

\* The move raised while copying across filesystems: a partial tree is left.
MvNewPartial ==
    /\ pc = "r_mvnew" /\ ~ended
    /\ target' = "partial"
    /\ Failed("mv_new")
    /\ Alive
    /\ pc' = "r_except"
    /\ UNCHANGED <<envVars, idleVars, dlVars, progress, procAlive, waitVars,
                   backup, newApp, tmp, started, results, launchVars, endVars>>

\* "if backup_path.exists(): shutil.rmtree(backup_path)" then "return True"
RmBackupSkip ==
    /\ pc = "r_rmbackup" /\ ~ended
    /\ backup = "none"
    /\ Result("replace", "ok")
    /\ pc' = "replaced"
    /\ UNCHANGED <<envVars, idleVars, dlVars, progress, procAlive, waitVars,
                   fsVars, newApp, tmp, started, failedSteps, aliveAtInstall,
                   launchVars, endVars>>

\* Mutant of RmBackupOk: success is returned without removing the backup.
RmBackupOk_Mut ==
    /\ pc = "r_rmbackup" /\ ~ended
    /\ backup # "none"
    /\ Alive
    /\ Result("replace", "ok")
    /\ pc' = "replaced"
    /\ UNCHANGED <<envVars, idleVars, dlVars, progress, procAlive, waitVars,
                   fsVars, newApp, tmp, started, failedSteps, launchVars,
                   endVars>>

RmBackupOk ==
    /\ pc = "r_rmbackup" /\ ~ended
    /\ backup # "none"
    /\ backup' = "none"
    /\ Alive
    /\ Result("replace", "ok")
    /\ pc' = "replaced"
    /\ UNCHANGED <<envVars, idleVars, dlVars, progress, procAlive, waitVars,
                   target, newApp, tmp, started, failedSteps, launchVars,
                   endVars>>

RmBackupFail ==
    /\ pc = "r_rmbackup" /\ ~ended
    /\ backup # "none"
    /\ Failed("rm_backup")
    /\ Alive
    /\ pc' = "r_except"
    /\ UNCHANGED <<envVars, idleVars, dlVars, progress, procAlive, waitVars,
                   fsVars, newApp, tmp, started, results, launchVars, endVars>>

\* "except Exception": no restore is due; "return False"
ExceptNoRestore ==
    /\ pc = "r_except" /\ ~ended
    /\ ~RestoreCond(backup, target)
    /\ Result("replace", "fail")
    /\ pc' = "replaced"
    /\ UNCHANGED <<envVars, idleVars, dlVars, progress, procAlive, waitVars,
                   fsVars, newApp, tmp, started, failedSteps, aliveAtInstall,
                   launchVars, endVars>>

\* "shutil.move(str(backup_path), str(old_app))" then "return False"
RestoreOk ==
    /\ pc = "r_except" /\ ~ended
    /\ RestoreCond(backup, target)
    /\ target' = backup
    /\ backup' = "none"
    /\ Alive
    /\ Result("replace", "fail")
    /\ pc' = "replaced"
    /\ UNCHANGED <<envVars, idleVars, dlVars, progress, procAlive, waitVars,
                   newApp, tmp, started, failedSteps, launchVars, endVars>>

\* Mutant of RestoreFail: the error of the restore move is swallowed and
\* False is returned.
RestoreFail_Mut ==
    /\ pc = "r_except" /\ ~ended
    /\ RestoreCond(backup, target)
    /\ Failed("restore")
    /\ Alive
    /\ Result("replace", "fail")
    /\ pc' = "replaced"
    /\ UNCHANGED <<envVars, idleVars, dlVars, progress, procAlive, waitVars,
                   fsVars, newApp, tmp, started, launchVars, endVars>>

\* The restore move raises inside the except block: replace_app raises.
RestoreFail ==
    /\ pc = "r_except" /\ ~ended
    /\ RestoreCond(backup, target)
    /\ Failed("restore")
    /\ Alive
    /\ Result("replace", "raise")
    /\ pc' = "replaced"
    /\ UNCHANGED <<envVars, idleVars, dlVars, progress, procAlive, waitVars,
                   fsVars, newApp, tmp, started, launchVars, endVars>>

(***************************************************************************)
(* The caller after replace_app, launch_app, and the end of the session    *)
(***************************************************************************)

\* "if not replace_app(new_app, app_bundle):" is false: on to the launch.
AfterReplaceOk ==
    /\ pc = "replaced" /\ ~ended
    /\ results["replace"] = "ok"
    /\ UpdateProgress("launching", <<95, 1>>)
    /\ pc' = "launch"
    /\ UNCHANGED <<envVars, idleVars, dlVars, procAlive, waitVars, fsVars,
                   newApp, tmp, started, results, failedSteps, aliveAtInstall,
                   launchVars, endVars>>

\* Mutant of AfterReplaceFail: the False result is ignored and the launch follows.
AfterReplaceFail_Mut ==
    /\ pc = "replaced" /\ ~ended
    /\ results["replace"] = "fail"
    /\ pc' = "launch"
    /\ UNCHANGED <<envVars, idleVars, dlVars, progress, procAlive, waitVars,
                   fsVars, newApp, tmp, started, results, failedSteps,
                   aliveAtInstall, launchVars, endVars>>

\* replace_app returned False: "Error: Installation failed"
AfterReplaceFail ==
    /\ pc = "replaced" /\ ~ended
    /\ results["replace"] = "fail"
    /\ EndFail("install_failed")
    /\ UNCHANGED <<envVars, idleVars, dlVars, procAlive, waitVars, fsVars,
                   newApp, started, results, failedSteps, aliveAtInstall,
                   launchVars>>

\* replace_app raised.
AfterReplaceRaise ==
    /\ pc = "replaced" /\ ~ended
    /\ results["replace"] = "raise"
    /\ EndRaise
    /\ UNCHANGED <<envVars, idleVars, dlVars, procAlive, waitVars, fsVars,
                   newApp, started, results, failedSteps, aliveAtInstall,
                   launchVars>>

\* Mutant of LaunchPath: the extracted bundle inside the temporary directory.
LaunchPath_Mut == "tmp_path"

\* The path both front ends hand to launch_app: app_bundle = Path(app_path).
LaunchPath == "app_path"

\* Mutant of LaunchOk: the launch is awaited and an application that did
\* not come up is reported as a failure.
LaunchOk_Mut ==
    /\ pc = "launch" /\ ~ended
    /\ Begin("launch")
    /\ launched' = LaunchPath
    /\ appStarted' \in BOOLEAN
    /\ Result("launch", "ok")
    /\ IF appStarted'
       THEN pc' = "complete" /\ UNCHANGED <<tmp, endVars, progress>>
       ELSE EndFail("launch_failed")
    /\ UNCHANGED <<envVars, idleVars, dlVars, procAlive, waitVars, fsVars,
                   newApp, failedSteps, aliveAtInstall>>

\* launch_app(app_bundle): subprocess.Popen(['open', ...]) returned.  Whether
\* the command then brings the application up is not awaited.
LaunchOk ==
    /\ pc = "launch" /\ ~ended
    /\ Begin("launch")
    /\ launched' = LaunchPath
    /\ appStarted' \in BOOLEAN
    /\ Result("launch", "ok")
    /\ pc' = "complete"
    /\ UNCHANGED <<envVars, idleVars, dlVars, progress, procAlive, waitVars,
                   fsVars, newApp, tmp, failedSteps, aliveAtInstall, endVars>>

\* subprocess.Popen raised (OSError).
LaunchRaise ==
    /\ pc = "launch" /\ ~ended
    /\ Begin("launch")
    /\ launched' = LaunchPath
    /\ UNCHANGED appStarted
    /\ Result("launch", "raise")
    /\ Failed("launch")
    /\ EndRaise
    /\ UNCHANGED <<envVars, idleVars, dlVars, procAlive, waitVars, fsVars,
                   newApp, aliveAtInstall>>

\* "Update complete!"
Complete ==
    /\ pc = "complete" /\ ~ended
    /\ EndComplete
    /\ UNCHANGED <<envVars, idleVars, dlVars, procAlive, waitVars, fsVars,
                   newApp, started, results, failedSteps, aliveAtInstall,
                   launchVars>>

\* update_thread: page.window.close()
GuiClose ==
    /\ pc = "gui_close" /\ ~ended
    /\ windowClosed' = TRUE
    /\ pc' = "gui_return"
    /\ UNCHANGED <<envVars, idleVars, dlVars, progress, procAlive, waitVars,
                   fsVars, newApp, tmp, started, results, failedSteps,
                   aliveAtInstall, launchVars, outcome, msg, ended, exitCode>>

\* update_thread returns, leaving the with block if it is still inside it.
GuiReturn ==
    /\ pc = "gui_return" /\ ~ended
    /\ tmp' = LeaveTemp(tmp)
    /\ pc' = "done"
    /\ UNCHANGED <<envVars, idleVars, dlVars, progress, procAlive, waitVars,
                   fsVars, newApp, started, results, failedSteps,
                   aliveAtInstall, launchVars, endVars>>

\* Mutant of MainExit: the interpreter ends without running the finalizer of
\* the TemporaryDirectory the daemon thread is still inside.
MainExit_Mut ==
    /\ mode = "gui"
    /\ windowClosed /\ ~ended
    /\ ended' = TRUE
    /\ exitCode' = 0
    /\ UNCHANGED <<envVars, idleVars, dlVars, progress, procAlive, waitVars,
                   pc, fsVars, newApp, tmp, started, results, failedSteps,
                   aliveAtInstall, launchVars, outcome, msg, windowClosed>>

\* ft.run(main) returns once the window is closed and the process ends,
\* taking the daemon thread with it wherever it is.  A TemporaryDirectory
\* whose with block was not left is removed by its exit finalizer
\* (weakref.finalize, run at interpreter shutdown).
MainExit ==
    /\ mode = "gui"
    /\ windowClosed /\ ~ended
    /\ ended' = TRUE
    /\ exitCode' = 0
    /\ tmp' = LeaveTemp(tmp)
    /\ UNCHANGED <<envVars, idleVars, dlVars, progress, procAlive, waitVars,
                   pc, fsVars, newApp, started, results, failedSteps,
                   aliveAtInstall, launchVars, outcome, msg, windowClosed>>

\* The steps of the updater itself.
UpdaterStep ==
    \/ StartWait \/ StartNoPid
    \/ WaitSleep \/ WaitReturnTrue \/ WaitTimeout
    \/ MakeTemp
    \/ ReportHook \/ DownloadOk \/ DownloadFail
    \/ ExtractOk \/ ExtractNotFound \/ ExtractRaise
    \/ ReplaceBegin
    \/ RmStaleSkip \/ RmStaleOk \/ RmStaleFail
    \/ MvOldSkip \/ MvOldOk \/ MvOldFail
    \/ MvNewOk \/ MvNewFail \/ MvNewPartial
    \/ RmBackupSkip \/ RmBackupOk \/ RmBackupFail
    \/ ExceptNoRestore \/ RestoreOk \/ RestoreFail
    \/ AfterReplaceOk \/ AfterReplaceFail \/ AfterReplaceRaise
    \/ LaunchOk \/ LaunchRaise
    \/ Complete
    \/ GuiClose \/ GuiReturn \/ MainExit

\* The updater's steps and the watched process's exit.
Next == UpdaterStep \/ ProcExit

Spec == Init /\ [][Next]_vars

\* Every call the updater makes returns, and the updater is scheduled; the
\* watched process is free never to exit.
SpecLive == Spec /\ WF_vars(UpdaterStep)

(***************************************************************************)
(* The window and its idle event.  "page.on_idle = lambda: do_update()"    *)
(* starts one more update_thread at every idle event: do_update keeps no   *)
(* record of a thread already started.  The events followed here are the   *)
(* first one and those that arrive while a finished thread sleeps before   *)
(* its page.window.close(); an event in the middle of a run starts a       *)
(* thread that runs beside the first and is not followed.  tmp is the      *)
(* temporary directory of the thread started last.                         *)
(***************************************************************************)

InitIdle ==
    /\ mode = "gui"
    /\ pidArg \in {"none", "zero", "pid"}
    /\ hasPid = (pidArg = "pid")
    /\ procAlive \in BOOLEAN
    /\ alive0 = procAlive
    /\ procPerm \in BOOLEAN
    /\ timeout = SessionTimeout
    /\ elapsed = 0
    /\ lastProbe = "none"
    /\ allExisted = TRUE
    /\ archive \in SUBSET (0..MaxDepth)
    /\ corrupt \in BOOLEAN
    /\ pc = "idle"
    /\ target \in TargetStates
    /\ backup \in BackupStates
    /\ target0 = target
    /\ backup0 = backup
    /\ newApp = "none"
    /\ tmp = "none"
    /\ started = <<>>
    /\ results = [o \in OpSet |-> "none"]
    /\ failedSteps = {}
    /\ aliveAtInstall = FALSE
    /\ launched = "none"
    /\ appStarted = FALSE
    /\ outcome = "none"
    /\ msg = "none"
    /\ windowClosed = FALSE
    /\ ended = FALSE
    /\ exitCode = -1
    /\ pipelines = 0
    /\ closers = 0
    /\ hooks = 0
    /\ blockSize = 0
    /\ totalSize = 0
    /\ percent = <<0, 1>>
    /\ callbacks = 0
    /\ progress = Bar("preparing", <<0, 1>>)

\* The idle event: do_update() starts a new update_thread, whose locals
\* are fresh.
OnIdle ==
    /\ mode = "gui" /\ ~ended
    /\ pc \in {"idle", "gui_close"}
    /\ pipelines < MaxIdleEvents
    /\ pipelines' = pipelines + 1
    /\ closers' = IF pc = "gui_close" THEN closers + 1 ELSE closers
    /\ pc' = "start"
    /\ elapsed' = 0
    /\ lastProbe' = "none"
    /\ allExisted' = TRUE
    /\ newApp' = "none"
    /\ UNCHANGED <<envVars, dlVars, progress, procAlive, fsVars, tmp, started,
                   results, failedSteps, aliveAtInstall, launchVars, endVars>>

\* A thread that finished earlier wakes up: page.window.close()
SleeperClose ==
    /\ closers > 0 /\ ~ended
    /\ closers' = closers - 1
    /\ windowClosed' = TRUE
    /\ UNCHANGED <<envVars, pipelines, dlVars, progress, procAlive, waitVars,
                   pc, fsVars, newApp, tmp, started, results, failedSteps,
                   aliveAtInstall, launchVars, outcome, msg, ended, exitCode>>

NextIdle == OnIdle \/ SleeperClose \/ Next

SpecIdle == InitIdle /\ [][NextIdle]_vars

(***************************************************************************)
(* The two front ends as functions from the outcomes of the phases to the  *)
(* core operations they invoke, each translated from its own code.  o maps *)
(* "pid" to whether main_pid is truthy and each operation to its outcome   *)
(* ("ok", "fail", "raise", or "none" when the session never got to it).    *)
(***************************************************************************)

Call(op, args) == [op |-> op, args |-> args]

\* update_thread: wait_for_process_exit(main_pid, timeout=30)
GuiTimeoutSeconds == 30

\* run_cli_updater, lines 229-274.
RunCli(o) ==
    LET w == IF o.pid
             THEN <<Call("wait", <<"main_pid", TimeoutSeconds>>)>> ELSE <<>>
        d == w \o <<Call("download", <<"download_url", "tmp/update.zip">>)>>
        e == d \o <<Call("extract", <<"tmp/update.zip", "tmp/extracted">>)>>
        r == e \o <<Call("replace", <<"new_app", "app_path">>)>>
        l == r \o <<Call("launch", <<"app_path">>)>>
    IN  IF o.pid /\ o.wait # "ok" THEN w
        ELSE IF o.download # "ok" THEN d
        ELSE IF o.extract # "ok" THEN e
        ELSE IF o.replace # "ok" THEN r
        ELSE l

\* Mutant of RunGui: the interactive front end launches the extracted bundle.
RunGui_Mut(o) ==
    LET w == IF o.pid
             THEN <<Call("wait", <<"main_pid", GuiTimeoutSeconds>>)>> ELSE <<>>
        d == w \o <<Call("download", <<"download_url", "tmp/update.zip">>)>>
        e == d \o <<Call("extract", <<"tmp/update.zip", "tmp/extracted">>)>>
        r == e \o <<Call("replace", <<"new_app", "app_path">>)>>
        l == r \o <<Call("launch", <<"new_app">>)>>
    IN  IF o.pid /\ o.wait # "ok" THEN w
        ELSE IF o.download # "ok" THEN d
        ELSE IF o.extract # "ok" THEN e
        ELSE IF o.replace # "ok" THEN r
        ELSE l

\* run_gui_updater.update_thread, lines 154-204.
RunGui(o) ==
    LET w == IF o.pid
             THEN <<Call("wait", <<"main_pid", GuiTimeoutSeconds>>)>> ELSE <<>>
        d == w \o <<Call("download", <<"download_url", "tmp/update.zip">>)>>
        e == d \o <<Call("extract", <<"tmp/update.zip", "tmp/extracted">>)>>
        r == e \o <<Call("replace", <<"new_app", "app_path">>)>>
        l == r \o <<Call("launch", <<"app_path">>)>>
    IN  IF o.pid /\ o.wait # "ok" THEN w
        ELSE IF o.download # "ok" THEN d
        ELSE IF o.extract # "ok" THEN e
        ELSE IF o.replace # "ok" THEN r
        ELSE l

(***************************************************************************)
(* wait_for_process_exit on its own: called with any timeout, on a pid     *)
(* whose process exists or not.                                            *)
(***************************************************************************)

InitWait ==
    /\ mode \in {"cli", "gui"}
    /\ pidArg = "pid"
    /\ hasPid = TRUE
    /\ procAlive \in BOOLEAN
    /\ alive0 = procAlive
    /\ procPerm \in BOOLEAN
    /\ timeout \in 0..MaxTimeout
    /\ elapsed = 0
    /\ lastProbe = "none"
    /\ allExisted = TRUE
    /\ archive = {0}
    /\ corrupt = FALSE
    /\ pc = "wait"
    /\ target = "old"
    /\ backup = "none"
    /\ target0 = target
    /\ backup0 = backup
    /\ newApp = "none"
    /\ tmp = "none"
    /\ started = <<"wait">>
    /\ results = [o \in OpSet |-> "none"]
    /\ failedSteps = {}
    /\ aliveAtInstall = FALSE
    /\ launched = "none"
    /\ appStarted = FALSE
    /\ outcome = "none"
    /\ msg = "none"
    /\ windowClosed = FALSE
    /\ ended = FALSE
    /\ exitCode = -1
    /\ pipelines = 1
    /\ closers = 0
    /\ hooks = 0
    /\ blockSize = 0
    /\ totalSize = 0
    /\ percent = <<0, 1>>
    /\ callbacks = 0
    /\ progress = Bar(IF mode = "gui" THEN "waiting" ELSE "none", IF mode = "gui" THEN <<5, 1>> ELSE <<0, 1>>)

NextWait == WaitSleep \/ WaitReturnTrue \/ WaitTimeout \/ ProcExit

SpecWait == InitWait /\ [][NextWait]_vars

(***************************************************************************)
(* Properties                                                              *)
(***************************************************************************)

\* replace_app has returned or raised.
ReplaceFinished == results["replace"] # "none"

\* The session has reached its terminal outcome.
Terminal == outcome # "none"

\* The session reports failure (an error line, or a traceback).
ReportsFailure == outcome \in {"failed", "crashed"}

\* Steps of replace_app from the backup move onward, and with the restore.
SwapSteps == {"mv_old", "mv_new", "rm_backup"}
LaterSteps == SwapSteps \cup {"restore"}

OpIndex(op) == CHOOSE i \in 1..Len(Ops) : Ops[i] = op

\* C1: whatever the starting state of the install location and whichever
\* filesystem step fails, when replace_app finishes the target holds the new
\* bundle with no backup remaining, or the original bundle with no backup
\* remaining, and target and backup are never both missing.
C1_ReplaceAllOrNothing ==
    ReplaceFinished =>
        /\ \/ (target = "new" /\ backup = "none")
           \/ (target = target0 /\ backup = "none")
        /\ ~(target = "none" /\ backup = "none")

\* C2: if the move of the new bundle into place fails after the old bundle
\* was moved to the backup path, the session ends with the target holding its
\* pre-update content, the backup moved back, replace_app having returned
\* False, the outcome Failed and nothing launched.
C2_MoveInFailureRestores ==
    (Terminal /\ target0 = "old" /\ "mv_new" \in failedSteps) =>
        /\ target = target0
        /\ backup = "none"
        /\ results["replace"] = "fail"
        /\ outcome = "failed"
        /\ launched = "none"

\* C3: in every terminal state exactly one holds: the target holds the new
\* version, a launch was issued and success is reported; or the target holds
\* what it held before the session and failure is reported.
C3_NoPartialSuccess ==
    Terminal =>
        LET a == target = "new" /\ launched # "none" /\ outcome = "complete"
            b == target = target0 /\ ReportsFailure
        IN  (a \/ b) /\ ~(a /\ b)

\* C4: with a watched pid, no step of replace_app runs while the watched
\* process is alive, replace_app begins only after the wait returned True, and
\* a wait that returned False ends the session Failed with the bundle and the
\* backup slot untouched.
C4_NoInstallWhileAlive ==
    hasPid =>
        /\ ~aliveAtInstall
        /\ (\E i \in 1..Len(started) : started[i] = "replace")
               => results["wait"] = "ok"
        /\ results["wait"] = "fail" =>
               (outcome = "failed" /\ target = target0 /\ backup = backup0)

\* C5: the phases begin in the order wait, download, extract, replace, launch
\* (the wait only with a watched pid), each only after the previous one
\* reported success; after a phase failed or raised no later phase begins.
C5_PhaseOrder ==
    /\ Len(started) > 0 =>
           started[1] = (IF hasPid THEN "wait" ELSE "download")
    /\ \A i \in 2..Len(started) :
           /\ OpIndex(started[i]) = OpIndex(started[i-1]) + 1
           /\ results[started[i-1]] = "ok"
    /\ \A i \in 1..Len(started) :
           results[started[i]] \in {"fail", "raise"} => i = Len(started)

\* C5 witness: a session that stopped at a failed install after three
\* successful phases.
C5_Witness ==
    /\ Terminal
    /\ started = <<"wait", "download", "extract", "replace">>
    /\ results["replace"] = "fail"

\* C6: a bundle at the archive's top level, an installed bundle, no watched
\* process and no failing I/O step: the session ends with the target holding
\* the new content, no backup left and a launch issued for the installed path.
C6_HappyPath ==
    (Terminal /\ 0 \in archive /\ ~corrupt /\ target0 = "old" /\ ~hasPid
              /\ failedSteps = {}) =>
        /\ target = "new"
        /\ backup = "none"
        /\ launched = "app_path"
        /\ outcome = "complete"

\* C6 witness: such a session has ended, with a stale backup directory in
\* the way at the start.
C6_Witness ==
    /\ Terminal /\ 0 \in archive /\ ~corrupt /\ target0 = "old" /\ ~hasPid
    /\ failedSteps = {}
    /\ backup0 = "stale"
    /\ mode = "cli"

\* C7: whatever was left at backup_path, directory or plain file, is deleted
\* and does not block the attempt: when no move and no removal of a directory
\* fails, replace_app returns True, the target holds the new bundle and
\* nothing remains at backup_path.
C7_StaleBackupNeverBlocks ==
    (ReplaceFinished /\ backup0 # "none"
                     /\ failedSteps \cap LaterSteps = {}
                     /\ ("rm_stale" \in failedSteps => backup0 = "stalefile")) =>
        /\ results["replace"] = "ok"
        /\ target = "new"
        /\ backup = "none"

\* C8: whenever a step of replace_app from the backup move onward fails,
\* replace_app returns False, whether the restore move succeeds or fails.
C8_FailureIsReturned ==
    (ReplaceFinished /\ failedSteps \cap SwapSteps # {}) =>
        results["replace"] = "fail"

\* C9: a session whose rollback move failed never ends with the status of an
\* ordinary install failure: an install failure whose rollback was not
\* needed or succeeded ends with "Installation failed", a failed rollback
\* with a traceback (headless) or the raised error's text (interactive).
C9_RestoreFailureDistinct ==
    Terminal =>
        /\ "restore" \in failedSteps => msg \in {"traceback", "exception"}
        /\ results["replace"] = "fail" =>
               (msg = "install_failed" /\ "restore" \notin failedSteps)

\* C9 witness: an interactive session has ended after a failed rollback.
C9_Witness ==
    Terminal /\ "restore" \in failedSteps /\ mode = "gui"

\* C10: wait_for_process_exit returns True only if its last probe found no
\* process with the pid (a process that exists but may not be signalled
\* counts as existing), and False only if the process existed at every probe.
C10_WaitResultSound ==
    /\ results["wait"] = "ok" => lastProbe = "absent"
    /\ results["wait"] = "fail" => allExisted

\* wait_for_process_exit has returned.
WaitFinished == results["wait"] # "none"

\* C11: for a pid whose process does not exist at the call, and for every
\* timeout (0 included), wait_for_process_exit returns True on its first
\* probe, without having slept.
C11_AbsentReturnsTrueAtOnce ==
    (WaitFinished /\ ~alive0) =>
        /\ results["wait"] = "ok"
        /\ lastProbe = "absent"
        /\ elapsed = 0

\* C12: against a process that never exits, wait_for_process_exit with
\* timeout T returns False, no earlier than T and no later than T plus one
\* polling interval after the call.
C12_TimeoutBounds ==
    (WaitFinished /\ procAlive) =>
        /\ results["wait"] = "fail"
        /\ timeout <= elapsed
        /\ elapsed <= timeout + 1

\* C13 as stated: without a pid the session makes no probe and begins with
\* the download; with any pid supplied it begins with the wait.
C13_WaitIffPidSupplied ==
    /\ pidArg = "none" =>
           (lastProbe = "none" /\ (Len(started) > 0 => started[1] = "download"))
    /\ pidArg # "none" =>
           (Len(started) > 0 => started[1] = "wait")

\* C13 amended: a pid of 0 counts as no pid ("if main_pid:").  Without a pid
\* or with pid 0 the session makes no probe and begins with the download;
\* with a non-zero pid it begins with the wait.
C13_WaitIffPidTruthy ==
    /\ pidArg \in {"none", "zero"} =>
           (lastProbe = "none" /\ (Len(started) > 0 => started[1] = "download"))
    /\ pidArg = "pid" =>
           (Len(started) > 0 => started[1] = "wait")

\* C13 witness: sessions ended that were given --main-pid 0.
C13_Witness ==
    Terminal /\ pidArg = "zero" /\ Len(started) > 1

\* C14: headless, on every outcome: the archive is downloaded and extracted
\* only once the temporary directory exists, and the directory no longer
\* exists when the process has ended.
C14_CliTempRemoved ==
    mode = "cli" =>
        /\ results["download"] # "none" => tmp # "none"
        /\ ended => tmp # "exists"

\* C14 witness: a headless session ended by an uncaught error inside the
\* with block.
C14_Witness ==
    mode = "cli" /\ ended /\ outcome = "crashed" /\ tmp = "removed"

C16_ExitCodeAlwaysZero ==
    (mode = "cli" /\ ended) => exitCode = 0

\* C16 amended: the headless updater ends with exit code 0 exactly when the
\* session completed, and with exit code 1 on every failure outcome.
C16_ExitCodeReflectsOutcome ==
    (mode = "cli" /\ ended) =>
        exitCode = (IF outcome = "complete" THEN 0 ELSE 1)

\* C16 witness: a headless session that reported a failed install has ended.
C16_Witness ==
    mode = "cli" /\ ended /\ msg = "install_failed" /\ exitCode = 1

\* C17: with a readable archive whose only bundle lies at depth d,
\* extract_app returns it for d = 0 (top level) and d = 1 (one directory
\* deep) and fails with the bundle-not-found error for d >= 2.
C17_SearchDepth ==
    (results["extract"] # "none" /\ ~corrupt) =>
        \A d \in 0..MaxDepth :
            archive = {d} =>
                /\ d = 0 => (results["extract"] = "ok" /\ newApp = "top")
                /\ d = 1 => (results["extract"] = "ok" /\ newApp = "nested")
                /\ d >= 2 => (results["extract"] = "fail" /\ newApp = "none"
                                /\ msg = "not_found")

\* C17 witness: extraction has failed on an archive whose only bundle is two
\* directories deep.
C17_Witness ==
    results["extract"] = "fail" /\ archive = {2} /\ ~corrupt

\* C18: an error while downloading makes download_file return False, never
\* raise, and the session then ends in Failed with nothing extracted,
\* installed or launched.
C18_DownloadFailureStops ==
    "download" \in failedSteps =>
        /\ results["download"] = "fail"
        /\ outcome = "failed"
        /\ msg = "download_failed"
        /\ started[Len(started)] = "download"
        /\ newApp = "none"
        /\ target = target0 /\ backup = backup0
        /\ launched = "none"

\* C18 witness: an interactive session has ended on a failed download.
C18_Witness ==
    "download" \in failedSteps /\ mode = "gui" /\ pc = "done"

\* The outcomes of the phases of the session so far.
PhaseOutcomes == [x \in OpSet \cup {"pid"} |->
                     IF x = "pid" THEN hasPid ELSE results[x]]

\* The core operations the session invoked, with their arguments.
ActualArgs(op) ==
    CASE op = "wait" -> <<"main_pid", timeout \div PollsPerSecond>>
      [] op = "download" -> <<"download_url", "tmp/update.zip">>
      [] op = "extract" -> <<"tmp/update.zip", "tmp/extracted">>
      [] op = "replace" -> <<"new_app", "app_path">>
      [] op = "launch" -> <<launched>>

ActualCalls == [i \in 1..Len(started) |-> Call(started[i], ActualArgs(started[i]))]

C20_LaunchNeverFails ==
    (Terminal /\ results["replace"] = "ok") =>
        (outcome = "complete" /\ target = "new")

\* C20 amended: once replace_app has succeeded the new bundle stays
\* installed whatever happens at the launch; the session ends in Complete
\* whenever subprocess.Popen returned, whether or not the application then
\* came up, and with a failure report when Popen itself raised.
C20_LaunchFireAndForget ==
    (Terminal /\ results["replace"] = "ok") =>
        /\ target = "new" /\ backup = "none"
        /\ results["launch"] = "ok" => outcome = "complete"
        /\ results["launch"] = "raise" => ReportsFailure

\* C20 witness: a session ended in Complete although the application did
\* not come up.
C20_Witness ==
    Terminal /\ results["launch"] = "ok" /\ ~appStarted /\ outcome = "complete"

\* C21: when an old bundle is installed at the start, a complete copy of it
\* is at the target or at the backup path in every state, also between the
\* steps of replace_app, for as long as the new bundle is not completely in
\* place at the target.
C21_OldBundlePreserved ==
    (target0 = "old" /\ target # "new") => (target = "old" \/ backup = "old")

\* C21 witness: replace_app sits between its two moves, the old bundle at
\* the backup path and nothing at the target.
C21_Witness ==
    pc = "r_mvnew" /\ target = "none" /\ backup = "old"

\* C22: no core operation is invoked twice in a session, and once the
\* session is Failed or Complete no operation is begun, no result changes
\* and the install location is not touched again.
C22_NoRetryAbsorbing ==
    /\ [](\A i, j \in 1..Len(started) : started[i] = started[j] => i = j)
    /\ [][Terminal => (/\ started' = started
                       /\ results' = results
                       /\ target' = target /\ backup' = backup
                       /\ outcome' = outcome)]_vars

\* C22 witness: an interactive session is over after replace_app raised.
C22_Witness ==
    pc = "done" /\ mode = "gui" /\ results["replace"] = "raise"

\* C24: launch_app is called only after replace_app returned True in the
\* session, and with the installed-bundle path.
C24_LaunchAfterInstall ==
    launched # "none" =>
        (results["replace"] = "ok" /\ launched = "app_path" /\ target = "new")

\* C24 witness: the launch was issued for a bundle found nested in the
\* archive.
C24_Witness ==
    launched # "none" /\ newApp = "nested"

\* C27: whenever the archive holds a bundle at its top level extract_app
\* returns a top-level bundle, whatever lies in its subdirectories; a nested
\* bundle is returned only when no top-level entry is a bundle.
C27_TopLevelFirst ==
    (results["extract"] # "none" /\ ~corrupt) =>
        /\ 0 \in archive => newApp = "top"
        /\ newApp = "nested" => (0 \notin archive /\ 1 \in archive)

\* C27 witness: an archive with bundles at the top level and one level down
\* was extracted.
C27_Witness ==
    results["extract"] = "ok" /\ {0, 1} \subseteq archive

\* C29: as long as replace_app has not been called, so also in a session
\* that failed in the wait, the download or the extraction, the
\* installed-bundle path and the backup path hold what they held at the start.
C29_OnlyReplaceTouchesInstall ==
    (\A i \in 1..Len(started) : started[i] # "replace") =>
        (target = target0 /\ backup = backup0)

\* C29 witness: a session failed at the extraction with an old bundle and a
\* stale backup in place.
C29_Witness ==
    /\ Terminal /\ results["extract"] = "fail"
    /\ target0 = "old" /\ backup0 = "stale"

\* C30: content left at the backup path by an earlier run is never moved
\* into the target location.
C30_StaleNeverRestored ==
    target \notin {"stale", "stalefile"}

\* C23: in interactive mode at most one update thread is started in a
\* process, however often the idle event fires.
C23_SinglePipeline ==
    pipelines <= 1

\* C25: in interactive mode the value shown lies in the range of the phase
\* the status line names: waiting 0..10, downloading 10..70 and equal to
\* 10 + 0.6 * percent once a percent was reported, extracting 70..80,
\* installing 80..90, launching 90..100, and 100 only at Complete; the
\* status line names the phase the pipeline is in.
C25_ProgressInPhaseRange ==
    mode = "gui" =>
      LET n == progress.num
          d == progress.den
          st == progress.status
          In(lo, hi) == lo * d <= n /\ n <= hi * d
      IN /\ d > 0
         /\ st = "waiting" => In(0, 10)
         /\ st = "downloading" =>
              /\ In(10, 70)
              /\ IF callbacks > 0
                 THEN n * 5 * percent[2] = (50 * percent[2] + 3 * percent[1]) * d
                 ELSE n = 10 * d
         /\ st = "extracting" => In(70, 80)
         /\ st = "installing" => In(80, 90)
         /\ st = "launching" => In(90, 100)
         /\ n = 100 * d => (st = "complete" /\ outcome = "complete")
         /\ pc = "wait" => st = "waiting"
         /\ pc = "download" => st = "downloading"
         /\ pc = "extract" => st = "extracting"
         /\ pc \in {"replace", "r_rmstale", "r_mvold", "r_mvnew", "r_rmbackup",
                    "r_except", "replaced"} => st = "installing"
         /\ pc \in {"launch", "complete"} => st = "launching"

\* C25 witness: the window shows a download that overshot its declared size,
\* at 70.
C25_Witness ==
    /\ mode = "gui" /\ pc = "download"
    /\ progress.num = 70 * progress.den
    /\ (hooks - 1) * blockSize > totalSize

\* C26: every percent download_file hands to its callback lies in 0..100,
\* whatever the block count, block size and declared total; with no total
\* declared (or a total of 0) the callback is not called and the download
\* can return True all the same.
C26_PercentBounded ==
    /\ callbacks > 0 =>
         /\ percent[2] > 0
         /\ 0 <= percent[1]
         /\ percent[1] <= 100 * percent[2]
    /\ totalSize <= 0 => callbacks = 0
    /\ callbacks <= hooks
    /\ (pc = "download" /\ ~ended /\ hooks >= 1 /\ totalSize <= 0) =>
         ENABLED DownloadOk

\* C26 witness: a download that declared no total size has read blocks
\* without a single callback and can return True.
C26_Witness ==
    /\ pc = "download" /\ totalSize = -1 /\ hooks > 1 /\ callbacks = 0
    /\ ENABLED DownloadOk

\* C28: wait_for_process_exit terminates whether or not the watched process
\* exits, and when every call returns the session reaches Complete or a
\* failure.
C28_Terminates ==
    /\ (pc = "wait") ~> (pc # "wait")
    /\ <>Terminal

\* C28 witness: the wait ran to its timeout with the process still there,
\* and the session has ended.
C28_Witness ==
    /\ Terminal /\ results["wait"] = "fail"
    /\ procAlive /\ elapsed = timeout

====
